---- MODULE Spec2Model ----
(***************************************************************************)
(* Model of model_navigator's metadata inference helpers                   *)
(* (commands/infer_metadata.py), of the sequential command pipeline        *)
(* (framework_api/pipelines/pipeline.py) and of the command list that the  *)
(* TensorFlow pipeline manager builds                                      *)
(* (framework_api/pipelines/pipeline_manager_tf.py).                       *)
(*                                                                         *)
(* Python values are encoded as follows.                                   *)
(*   - Optional[int]: the empty sequence << >> is None, <<k>> is k.        *)
(*   - an insertion-ordered dict is a sequence of entries.                 *)
(*   - axes_shapes: a sequence of [name, axes]; axes[ax + 1] is the        *)
(*     bucket (sequence of observed sizes) of the 0-based axis ax.         *)
(*   - a call's outcome: [status |-> "ok", ...] on return and              *)
(*     [status |-> "raise", error |-> <exception class>, ...] on raise.    *)
(***************************************************************************)
EXTENDS Integers, Sequences, FiniteSets, TLC

VARIABLES
    pc,             \* position of the modelled call
    axes_shapes,    \* Dict[str, Dict[int, List[int]]]
    batch_dim,      \* Optional[int]
    result,         \* outcome of the helper that was applied
    dynamic_axes,   \* user's dynamic axes: sequence of [name, axes]
    input_metadata, \* TensorMetadata: sequence of [name, shape]
    metadata0,      \* the metadata as it was before the in-place update
    first_update,   \* outcome and metadata of the first of two updates (<< >> = none)
    loader,         \* data source handed to _extract_axes_shapes
    num_samples,    \* num_samples argument
    check_len,      \* check_len argument
    i,              \* loop index of _extract_axes_shapes (<< >> = unbound)
    warned,         \* the discrepancy warning was logged
    commands,       \* Pipeline._commands
    pos,            \* number of loop iterations of Pipeline.__call__ done
    additional_params, \* accumulated namespace of Pipeline.__call__
    commands_results,  \* results appended so far
    executed,       \* the transform calls made: [name, kwargs] in call order
    config,         \* config.to_dict()
    previous,       \* what the previous run of the same Pipeline did (<< >> = none)
    preprocess_req, \* _get_pipeline's preprocess_req: ids of the commands
    onnx_convert    \* _get_pipeline's onnx_convert: its id (<< >> = unbound)

vars == <<pc, axes_shapes, batch_dim, result, dynamic_axes, input_metadata,
          metadata0, first_update, loader, num_samples, check_len, i, warned, commands,
          pos, additional_params, commands_results, executed, config,
          previous, preprocess_req, onnx_convert>>

metaVars == <<dynamic_axes, input_metadata, metadata0, first_update>>
extractVars == <<loader, num_samples, check_len, i, warned>>
managerVars == <<preprocess_req, onnx_convert>>
pipeVars == <<commands, pos, additional_params, commands_results, executed,
              config, previous, managerVars>>

(***************************************************************************)
(* Bounds of the model.                                                    *)
(***************************************************************************)
MaxDim == 2       \* observed sizes range over 0..MaxDim
MaxNdim == 2      \* tensors have 0..MaxNdim axes
MaxSamples == 3   \* at most MaxSamples samples are aggregated
MaxCells == 5     \* at most MaxCells observed sizes in one axes_shapes
MaxMetaAxes == 3  \* at most MaxMetaAxes axes in one TensorMetadata
MaxUserAxes == 2  \* at most MaxUserAxes entries in the user's dynamic_axes
MaxYieldCells == 3 \* at most MaxYieldCells sizes in the samples of one data source

TensorNames == <<"t1", "t2">>

None == << >>
Some(x) == <<x>>

Wildcard == 0 - 1

Sizes == 0..MaxDim

(***************************************************************************)
(* Generic helpers on sequences.                                           *)
(***************************************************************************)
RECURSIVE SumSeq(_)
SumSeq(s) == IF s = << >> THEN 0 ELSE Head(s) + SumSeq(Tail(s))

\* Python's builtin min / max on a non-empty list
RECURSIVE PyMin(_)
PyMin(s) ==
    IF Len(s) = 1 THEN s[1]
    ELSE LET m == PyMin(Tail(s)) IN IF s[1] <= m THEN s[1] ELSE m

RECURSIVE PyMax(_)
PyMax(s) ==
    IF Len(s) = 1 THEN s[1]
    ELSE LET m == PyMax(Tail(s)) IN IF s[1] >= m THEN s[1] ELSE m

\* insertion of x into an ascending sequence
RECURSIVE Insert(_, _)
Insert(x, s) ==
    IF s = << >> THEN <<x>>
    ELSE IF x <= Head(s) THEN <<x>> \o s
    ELSE <<Head(s)>> \o Insert(x, Tail(s))

RECURSIVE Sorted(_)
Sorted(s) == IF s = << >> THEN << >> ELSE Insert(Head(s), Sorted(Tail(s)))

\* np.median(shapes), doubled so that it stays an integer: the middle
\* element of the sorted sample, or the mean of the two middle elements.
NpMedian2(s) ==
    LET srt == Sorted(s)
        n == Len(s)
    IN  IF n % 2 = 1 THEN 2 * srt[(n + 1) \div 2]
        ELSE srt[n \div 2] + srt[(n \div 2) + 1]

\* faulty variant of IntMedian: the upper middle element, sorted(s)[len(s) // 2]
IntMedianUpper(s) == Sorted(s)[(Len(s) \div 2) + 1]

\* int(np.median(shapes)): int() truncates the float toward zero; observed
\* sizes are never negative, so truncation is the floor.
IntMedian(s) == NpMedian2(s) \div 2

(***************************************************************************)
(* Outcomes of a call.                                                     *)
(***************************************************************************)
Return(v) == [status |-> "ok", value |-> v]
Raise(e, n, ax) == [status |-> "raise", error |-> e, name |-> n, axis |-> ax]
NoResult == [status |-> "none"]

(***************************************************************************)
(* _extract_max_batch_size                                                 *)
(***************************************************************************)
\* the tensor whose batch bucket is read: list(axes_shapes.values())[0]
BatchSizeTensor(as) == as[1]

\* faulty variant of extract_max_batch_size: min() in place of max()
extract_max_batch_size_min(as, bd) ==
    IF bd # None
    THEN IF as = << >> THEN Raise("IndexError", "", None)
         ELSE LET axes == BatchSizeTensor(as).axes
                  k == bd[1]
              IN  IF k >= Len(axes) THEN Raise("KeyError", "", bd)
                  ELSE IF axes[k + 1] = << >> THEN Raise("ValueError", "", bd)
                  ELSE Return(PyMin(axes[k + 1]))
    ELSE Return(0)

extract_max_batch_size(as, bd) ==
    IF bd # None
    THEN IF as = << >> THEN Raise("IndexError", "", None)
         ELSE LET axes == BatchSizeTensor(as).axes
                  k == bd[1]
              IN  IF k >= Len(axes) THEN Raise("KeyError", "", bd)
                  ELSE IF axes[k + 1] = << >> THEN Raise("ValueError", "", bd)
                  ELSE Return(PyMax(axes[k + 1]))
    ELSE Return(0)

(***************************************************************************)
(* _get_trt_profile_from_axes_shapes                                       *)
(***************************************************************************)
\* faulty variant of AxisMin: the batch axis is not special-cased
AxisMinObserved(ax, shapes, bd) == PyMin(shapes)

\* first component of the tuple appended to min_max_opt
AxisMin(ax, shapes, bd) == IF Some(ax) = bd THEN 1 ELSE PyMin(shapes)

\* second component: int(np.median(shapes)) in both branches
AxisOpt(ax, shapes, bd) == IntMedian(shapes)

\* third component: max(shapes) in both branches
AxisMax(ax, shapes, bd) == PyMax(shapes)

\* trt_profile.add(name, *list(zip(*min_max_opt)))
TensorProfile(t, bd) ==
    [name |-> t.name,
     min |-> [k \in 1..Len(t.axes) |-> AxisMin(k - 1, t.axes[k], bd)],
     opt |-> [k \in 1..Len(t.axes) |-> AxisOpt(k - 1, t.axes[k], bd)],
     max |-> [k \in 1..Len(t.axes) |-> AxisMax(k - 1, t.axes[k], bd)]]

\* an axis whose bucket is empty: min(), max() and int(nan) raise ValueError
HasEmptyBucket(t) == \E k \in 1..Len(t.axes) : t.axes[k] = << >>

\* faulty variant of ScalarOutcome: the tensor without axes ends the loop silently
ScalarSkipped(t, acc) == Return(acc)

\* the outcome for a tensor without axes: `if min_max_opt: ... else: raise`
ScalarOutcome(t, acc) ==
    Raise("ModelNavigatorUserInputError", t.name, None)

RECURSIVE ProfileLoop(_, _, _)
ProfileLoop(rest, bd, acc) ==
    IF rest = << >> THEN Return(acc)
    ELSE LET t == Head(rest)
         IN  IF HasEmptyBucket(t) THEN Raise("ValueError", t.name, None)
             ELSE IF Len(t.axes) = 0 THEN ScalarOutcome(t, acc)
             ELSE ProfileLoop(Tail(rest), bd, Append(acc, TensorProfile(t, bd)))

get_trt_profile_from_axes_shapes(as, bd) == ProfileLoop(as, bd, << >>)

(***************************************************************************)
(* _get_metadata_from_axes_shapes                                          *)
(* The dtype of a TensorSpec is copied from dtypes[name] unchanged and is  *)
(* left out of the model.                                                  *)
(***************************************************************************)
\* faulty variant of IsDynamicAxis: only the batch axis is dynamic
IsDynamicAxisBatchOnly(ax, shapes, bd) == Some(ax) = bd

\* `ax == batch_dim or min(shapes) != max(shapes)`
IsDynamicAxis(ax, shapes, bd) ==
    Some(ax) = bd \/ PyMin(shapes) # PyMax(shapes)

AxisDim(ax, shapes, bd) ==
    IF IsDynamicAxis(ax, shapes, bd) THEN Wildcard ELSE shapes[1]

\* min([]) raises ValueError unless `or` short-circuits on the batch axis
MetadataValueError(t, bd) ==
    \E k \in 1..Len(t.axes) : t.axes[k] = << >> /\ Some(k - 1) # bd

TensorSpecOf(t, bd) ==
    [name |-> t.name,
     shape |-> [k \in 1..Len(t.axes) |->
                    IF t.axes[k] = << >> THEN Wildcard
                    ELSE AxisDim(k - 1, t.axes[k], bd)]]

RECURSIVE MetadataLoop(_, _, _)
MetadataLoop(rest, bd, acc) ==
    IF rest = << >> THEN Return(acc)
    ELSE LET t == Head(rest)
         IN  IF MetadataValueError(t, bd) THEN Raise("ValueError", t.name, None)
             ELSE MetadataLoop(Tail(rest), bd, Append(acc, TensorSpecOf(t, bd)))

get_metadata_from_axes_shapes(as, bd) == MetadataLoop(as, bd, << >>)

(***************************************************************************)
(* Inputs of the derivation helpers: the axes_shapes that                  *)
(* InferInputMetadata._run hands them.  Every bucket of one axes_shapes    *)
(* holds one size per aggregated sample and _run has read a first sample   *)
(* before aggregating, so the buckets are not empty.                       *)
(***************************************************************************)
NdimLists == UNION {[1..k -> 0..MaxNdim] : k \in 0..Len(TensorNames)}

Layouts ==
    {l \in NdimLists \X (1..MaxSamples) : SumSeq(l[1]) * l[2] <= MaxCells}

Buckets(n) == [1..n -> Sizes]

\* number of axes of the tensors before the k-th
Offset(nds, k) == SumSeq(SubSeq(nds, 1, k - 1))

\* the axes_shapes of tensors with nds axes whose buckets are listed in f
AxesShapesOf(nds, f) ==
    [k \in 1..Len(nds) |->
        [name |-> TensorNames[k],
         axes |-> [a \in 1..nds[k] |-> f[Offset(nds, k) + a]]]]

\* the axes_shapes of the unit tests of the helpers
TestAxesShapes ==
    {<<[name |-> "input_0",
        axes |-> <<b, <<224, 224, 224, 224, 224>>,
                   <<224, 224, 224, 224, 224>>, <<3, 3, 3, 3, 3>> >>]>> :
        b \in {<<5, 999, 1, 3, 7>>, <<1, 1, 1, 1, 1>>}}

BatchDims == {None} \cup {Some(k) : k \in 0..(MaxNdim - 1)}

IdleMeta ==
    /\ dynamic_axes = << >>
    /\ input_metadata = << >>
    /\ metadata0 = << >>
    /\ first_update = << >>

IdleExtract ==
    /\ loader = << >>
    /\ num_samples = 0
    /\ check_len = FALSE
    /\ i = None
    /\ warned = FALSE

IdlePipeline ==
    /\ commands = << >>
    /\ pos = 0
    /\ additional_params = << >>
    /\ commands_results = << >>
    /\ executed = << >>
    /\ config = << >>
    /\ previous = << >>
    /\ preprocess_req = {}
    /\ onnx_convert = << >>

InitDerive ==
    /\ pc = "input"
    /\ \/ \E l \in Layouts : \E f \in [1..SumSeq(l[1]) -> Buckets(l[2])] :
              axes_shapes = AxesShapesOf(l[1], f)
       \/ axes_shapes \in TestAxesShapes
    /\ batch_dim \in BatchDims
    /\ result = NoResult
    /\ IdleMeta /\ IdleExtract /\ IdlePipeline

\* dataloader_max_batch_size = _extract_max_batch_size(axes_shapes, batch_dim)
CallExtractMaxBatchSize ==
    /\ pc = "input"
    /\ pc' = "max_batch_size"
    /\ result' = extract_max_batch_size(axes_shapes, batch_dim)
    /\ UNCHANGED <<axes_shapes, batch_dim, metaVars, extractVars, pipeVars>>

\* dataloader_trt_profile = _get_trt_profile_from_axes_shapes(...)
CallGetTrtProfile ==
    /\ pc = "input"
    /\ pc' = "trt_profile"
    /\ result' = get_trt_profile_from_axes_shapes(axes_shapes, batch_dim)
    /\ UNCHANGED <<axes_shapes, batch_dim, metaVars, extractVars, pipeVars>>

\* input_metadata = _get_metadata_from_axes_shapes(...)
CallGetMetadata ==
    /\ pc = "input"
    /\ pc' = "metadata"
    /\ result' = get_metadata_from_axes_shapes(axes_shapes, batch_dim)
    /\ UNCHANGED <<axes_shapes, batch_dim, metaVars, extractVars, pipeVars>>

NextDerive ==
    \/ CallExtractMaxBatchSize
    \/ CallGetTrtProfile
    \/ CallGetMetadata

SpecDerive == InitDerive /\ [][NextDerive]_vars

(***************************************************************************)
(* Properties of the derivation helpers.                                   *)
(***************************************************************************)
Range(s) == {s[k] : k \in 1..Len(s)}

TensorIdx == 1..Len(axes_shapes)
AxisIdx(j) == 1..Len(axes_shapes[j].axes)
Bucket(j, k) == axes_shapes[j].axes[k]
IsBatchAxis(k) == batch_dim = Some(k - 1)

ProfileReturned == pc = "trt_profile" /\ result.status = "ok"
MetadataReturned == pc = "metadata" /\ result.status = "ok"

\* C1: in a returned profile the min of the batch axis of every tensor is 1,
\* whatever sizes were observed on that axis.
C1_BatchAxisMinIsOne ==
    ProfileReturned =>
        \A j \in TensorIdx : \A k \in AxisIdx(j) :
            IsBatchAxis(k) => result.value[j].min[k] = 1

\* a profile was returned for a batch axis on which only sizes above 1 were seen
C1_Witness ==
    /\ ProfileReturned
    /\ \E j \in TensorIdx : \E k \in AxisIdx(j) :
          /\ IsBatchAxis(k)
          /\ \A x \in Range(Bucket(j, k)) : x > 1
          /\ result.value[j].min[k] = 1

\* the statistical median, doubled, defined by counting ranks
CountBelow(s, x) == Cardinality({k \in 1..Len(s) : s[k] < x})
CountUpTo(s, x) == Cardinality({k \in 1..Len(s) : s[k] <= x})
KthSmallest(s, r) ==
    CHOOSE x \in Range(s) : CountBelow(s, x) < r /\ CountUpTo(s, x) >= r
StatMedian2(s) ==
    LET n == Len(s)
    IN  IF n % 2 = 1 THEN 2 * KthSmallest(s, (n + 1) \div 2)
        ELSE KthSmallest(s, n \div 2) + KthSmallest(s, (n \div 2) + 1)

\* C2 as claimed: on every axis, opt is the statistical median of the
\* observed sizes, for odd and for even numbers of samples.
C2_OptIsMedian ==
    ProfileReturned =>
        \A j \in TensorIdx : \A k \in AxisIdx(j) :
            2 * result.value[j].opt[k] = StatMedian2(Bucket(j, k))

\* C2 amended: on every axis, opt is the statistical median rounded down to
\* an integer (so it is the median itself whenever the median is integral,
\* in particular for every odd number of samples).
C2_OptIsFloorOfMedian ==
    ProfileReturned =>
        \A j \in TensorIdx : \A k \in AxisIdx(j) :
            LET m2 == StatMedian2(Bucket(j, k))
                opt == result.value[j].opt[k]
            IN  /\ 2 * opt <= m2
                /\ m2 <= 2 * opt + 1
                /\ (Len(Bucket(j, k)) % 2 = 1 => 2 * opt = m2)

\* a profile was returned for an axis with an even number of samples whose
\* median is fractional: opt is the median less one half
C2_Witness ==
    /\ ProfileReturned
    /\ \E j \in TensorIdx : \E k \in AxisIdx(j) :
          /\ Len(Bucket(j, k)) % 2 = 0
          /\ StatMedian2(Bucket(j, k)) % 2 = 1
          /\ 2 * result.value[j].opt[k] + 1 = StatMedian2(Bucket(j, k))

\* C3: in the returned metadata a dimension is the wildcard exactly when the
\* axis is the batch axis or its observed sizes differ; otherwise it is the
\* single observed size.
C3_WildcardIffBatchOrVarying ==
    MetadataReturned =>
        \A j \in TensorIdx : \A k \in AxisIdx(j) :
            LET d == result.value[j].shape[k]
                varies == \E x, y \in Range(Bucket(j, k)) : x # y
            IN  /\ result.value[j].name = axes_shapes[j].name
                /\ (d = Wildcard) <=> (IsBatchAxis(k) \/ varies)
                /\ (d # Wildcard) => \A x \in Range(Bucket(j, k)) : x = d

\* metadata was returned for a tensor with a batch axis observed constant
\* (wildcard all the same) and a constant non-batch axis (kept)
C3_Witness ==
    /\ MetadataReturned
    /\ \E j \in TensorIdx : \E k, m \in AxisIdx(j) :
          /\ IsBatchAxis(k) /\ ~IsBatchAxis(m)
          /\ Len(Bucket(j, k)) > 1
          /\ \A x, y \in Range(Bucket(j, k)) : x = y
          /\ result.value[j].shape[k] = Wildcard
          /\ result.value[j].shape[m] = Bucket(j, m)[1]
          /\ result.value[j].shape[m] # Wildcard

IsScalar(j) == Len(axes_shapes[j].axes) = 0

\* C6: when some tensor has zero axes, profile derivation raises
\* ModelNavigatorUserInputError naming a tensor without axes (the first one
\* in the order of axes_shapes) and returns no profile.
C6_ScalarRaisesUserInputError ==
    (pc = "trt_profile" /\ \E j \in TensorIdx : IsScalar(j)) =>
        /\ result.status = "raise"
        /\ result.error = "ModelNavigatorUserInputError"
        /\ \E j \in TensorIdx :
              /\ IsScalar(j)
              /\ result.name = axes_shapes[j].name
              /\ \A m \in 1..(j - 1) : ~IsScalar(m)

\* the derivation raised for a scalar that follows a tensor with axes, with
\* a batch axis given
C6_Witness ==
    /\ pc = "trt_profile"
    /\ batch_dim # None
    /\ Len(axes_shapes) = 2
    /\ ~IsScalar(1) /\ IsScalar(2)
    /\ result.status = "raise"
    /\ result.name = axes_shapes[2].name

\* C7: the maximal batch size is 0 when batch_dim is None, and for
\* batch_dim = k it is the maximum of the sizes observed in bucket k (of the
\* first tensor): one of the observed sizes, and no observed size exceeds it.
C7_MaxBatchSize ==
    pc = "max_batch_size" =>
        /\ batch_dim = None => result = Return(0)
        /\ (batch_dim # None /\ axes_shapes # << >>
                /\ batch_dim[1] < Len(axes_shapes[1].axes)) =>
              LET b == Bucket(1, batch_dim[1] + 1)
              IN  /\ result.status = "ok"
                  /\ result.value \in Range(b)
                  /\ \A x \in Range(b) : x <= result.value

\* the maximum was taken of a bucket whose largest size is neither the first
\* nor the last one observed (as in the bucket [5, 999, 1, 3, 7])
C7_Witness ==
    /\ pc = "max_batch_size"
    /\ batch_dim # None /\ axes_shapes # << >>
    /\ batch_dim[1] < Len(axes_shapes[1].axes)
    /\ LET b == Bucket(1, batch_dim[1] + 1)
       IN  /\ Len(b) >= 3
           /\ b[1] < result.value /\ b[Len(b)] < result.value
           /\ result.value = 999

\* C21: in every returned profile, for every tensor and every axis,
\* min <= opt <= max, whatever non-negative sizes were observed and whatever
\* batch_dim is (a batch axis on which only size 0 was observed included).
C21_MinOptMaxOrdered ==
    ProfileReturned =>
        \A j \in TensorIdx : \A k \in AxisIdx(j) :
            /\ result.value[j].min[k] <= result.value[j].opt[k]
            /\ result.value[j].opt[k] <= result.value[j].max[k]

\* C22: with a batch_dim and several tensors, the maximal batch size that
\* is returned is at least every size observed on the batch axis of every
\* tensor of axes_shapes, and it is the batch-axis max of the profile that
\* is derived for each tensor from the same axes_shapes.
C22_MaxBatchSizeCoversAllTensors ==
    (/\ pc = "max_batch_size"
     /\ batch_dim # None
     /\ Len(axes_shapes) > 1
     /\ result.status = "ok") =>
        LET profile == get_trt_profile_from_axes_shapes(axes_shapes, batch_dim)
        IN  \A j \in TensorIdx : \A k \in AxisIdx(j) :
                IsBatchAxis(k) =>
                    /\ \A x \in Range(Bucket(j, k)) : x <= result.value
                    /\ profile.status = "ok" =>
                          profile.value[j].max[k] = result.value

(***************************************************************************)
(* _update_user_dynamic_axes_inplace                                       *)
(* dynamic_axes is a sequence of [name, axes] in the dict's order, axes    *)
(* the set of axes declared dynamic.  An operator returns the outcome of   *)
(* the call together with the metadata it leaves behind.                   *)
(***************************************************************************)
Updated(res, md) == [result |-> res, metadata |-> md]

\* input_metadata.get(name, None): position of the tensor, 0 when absent
MetaPos(md, name) ==
    IF \E k \in 1..Len(md) : md[k].name = name
    THEN CHOOSE k \in 1..Len(md) : md[k].name = name
    ELSE 0

\* the position (1-based) that the list index ax denotes in a list of n
\* items: a negative index counts from the end
ListPos(n, ax) == IF ax < 0 THEN n + ax + 1 ELSE ax + 1

\* `shape[ax] = -1` raises IndexError
IndexOutOfRange(n, ax) == ListPos(n, ax) < 1 \/ ListPos(n, ax) > n

\* `for ax in axes: shape[ax] = -1`
ForcedShape(shape, axes) ==
    [k \in 1..Len(shape) |->
        IF \E ax \in axes : ListPos(Len(shape), ax) = k
        THEN Wildcard ELSE shape[k]]

\* axes of the original shape that fail `d == -1 and ax not in axes`
Undeclared(shape, axes) ==
    {ax \in 0..(Len(shape) - 1) : shape[ax + 1] = Wildcard /\ ax \notin axes}

SetMin(S) == CHOOSE x \in S : \A y \in S : x <= y

\* `if tensor_spec is None: return`
MissingOutcome(rest, md) == Updated(Return(None), md)

RECURSIVE UpdateLoop(_, _)
UpdateLoop(rest, md) ==
    IF rest = << >> THEN Updated(Return(None), md)
    ELSE LET e == Head(rest)
             p == MetaPos(md, e.name)
         IN  IF p = 0 THEN MissingOutcome(rest, md)
             ELSE LET shape == md[p].shape
                      md2 == [md EXCEPT ![p].shape = ForcedShape(shape, e.axes)]
                  IN  IF \E ax \in e.axes : IndexOutOfRange(Len(shape), ax)
                      THEN Updated(Raise("IndexError", e.name, None), md)
                      ELSE IF Undeclared(shape, e.axes) # {}
                      THEN Updated(Raise("ValueError", e.name,
                                         Some(SetMin(Undeclared(shape, e.axes)))),
                                   md2)
                      ELSE UpdateLoop(Tail(rest), md2)

update_user_dynamic_axes_inplace(da, md) == UpdateLoop(da, md)

\* dimensions of the metadata of the unit tests: (-1, 224, 224, 3)
MetaDims == {Wildcard, 224}

MetaLayouts == {nds \in NdimLists : SumSeq(nds) <= MaxMetaAxes}

\* the metadata of tensors with nds axes whose dimensions are listed in f
MetadataOf(nds, f) ==
    [k \in 1..Len(nds) |->
        [name |-> TensorNames[k],
         shape |-> [a \in 1..nds[k] |-> f[Offset(nds, k) + a]]]]

\* names the user may declare: the tensors and one that is no tensor
UserNames == Range(TensorNames) \cup {"missing"}

\* axes the user may declare: 0-based indices, or -1 for the last axis
UserAxes == (0 - 1)..(MaxNdim - 1)

UserEntries == [name : UserNames, axes : SUBSET UserAxes]

DistinctNames(da) ==
    \A a, b \in 1..Len(da) : a # b => da[a].name # da[b].name

InitUpdate ==
    /\ pc = "update_input"
    /\ \E nds \in MetaLayouts : \E f \in [1..SumSeq(nds) -> MetaDims] :
          input_metadata = MetadataOf(nds, f)
    /\ metadata0 = input_metadata
    /\ first_update = None
    /\ \E n \in 0..MaxUserAxes : \E da \in [1..n -> UserEntries] :
          DistinctNames(da) /\ dynamic_axes = da
    /\ result = NoResult
    /\ axes_shapes = << >>
    /\ batch_dim = None
    /\ IdleExtract /\ IdlePipeline

\* _update_user_dynamic_axes_inplace(dynamic_axes, input_metadata)
CallUpdateUserDynamicAxes ==
    /\ pc = "update_input"
    /\ pc' = "updated"
    /\ LET u == update_user_dynamic_axes_inplace(dynamic_axes, input_metadata)
       IN  /\ result' = u.result
           /\ input_metadata' = u.metadata
    /\ UNCHANGED <<axes_shapes, batch_dim, dynamic_axes, metadata0, first_update,
                   extractVars, pipeVars>>

\* the same call made once more, with the same dynamic_axes, on the
\* metadata that the first call left behind
CallUpdateUserDynamicAxesAgain ==
    /\ pc = "updated"
    /\ pc' = "updated_twice"
    /\ first_update' = Some([result |-> result, metadata |-> input_metadata])
    /\ LET u == update_user_dynamic_axes_inplace(dynamic_axes, input_metadata)
       IN  /\ result' = u.result
           /\ input_metadata' = u.metadata
    /\ UNCHANGED <<axes_shapes, batch_dim, dynamic_axes, metadata0,
                   extractVars, pipeVars>>

NextUpdate ==
    \/ CallUpdateUserDynamicAxes
    \/ CallUpdateUserDynamicAxesAgain

SpecUpdate == InitUpdate /\ [][NextUpdate]_vars

(***************************************************************************)
(* Properties of _update_user_dynamic_axes_inplace.                        *)
(***************************************************************************)
UpdateReturned == pc = "updated" /\ result.status = "ok"

\* C4: after a normal return, every axis the user declared dynamic for a
\* tensor of the metadata is the wildcard, whichever other names (tensors
\* of the metadata or not) dynamic_axes holds.
C4_DeclaredAxesAreWildcard ==
    UpdateReturned =>
        \A e \in 1..Len(dynamic_axes) :
            LET p == MetaPos(input_metadata, dynamic_axes[e].name)
            IN  p # 0 =>
                    \A ax \in dynamic_axes[e].axes :
                        ~IndexOutOfRange(Len(input_metadata[p].shape), ax) =>
                            input_metadata[p].shape[
                                ListPos(Len(input_metadata[p].shape), ax)] = Wildcard

\* the axis (0-based) ax of the tensor at position p was wildcard from the
\* data and the user did not mark it dynamic, under either of its indices
UndeclaredWildcard(p, ax) ==
    /\ metadata0[p].shape[ax + 1] = Wildcard
    /\ ~\E e \in 1..Len(dynamic_axes) :
            /\ dynamic_axes[e].name = metadata0[p].name
            /\ \E a \in dynamic_axes[e].axes :
                   ListPos(Len(metadata0[p].shape), a) = ax + 1

\* C5: with user dynamic axes supplied, the update never returns normally
\* while some tensor of the metadata has an axis that was wildcard from the
\* data and that the user did not mark dynamic: it raises, and its
\* validation error names such a tensor and axis.
C5_UndeclaredWildcardRaises ==
    (/\ pc = "updated"
     /\ \E p \in 1..Len(metadata0) : \E ax \in 0..(Len(metadata0[p].shape) - 1) :
            UndeclaredWildcard(p, ax)) =>
        /\ result.status = "raise"
        /\ result.error = "ValueError" =>
              \E p \in 1..Len(metadata0) :
                  /\ metadata0[p].name = result.name
                  /\ result.axis # None
                  /\ result.axis[1] < Len(metadata0[p].shape)
                  /\ UndeclaredWildcard(p, result.axis[1])

\* C19: applying the update twice with the same dynamic_axes gives the
\* same outcome as applying it once: the second application ends as the
\* first did (normal return, or the same error naming the same tensor and
\* axis) and leaves the metadata that the first one left.
C19_UpdateIsIdempotent ==
    pc = "updated_twice" =>
        /\ result = first_update[1].result
        /\ input_metadata = first_update[1].metadata

\* C20: when the update raises its validation error, the metadata that was
\* passed is left exactly as it was before the call.
C20_ValidationErrorLeavesMetadata ==
    (/\ pc = "updated"
     /\ result.status = "raise"
     /\ result.error = "ValueError")
    => input_metadata = metadata0

(***************************************************************************)
(* _extract_axes_shapes                                                    *)
(* loader is the data source: sized tells whether len() is defined on it,  *)
(* len is what len() reports, samples is what iterating it yields.  A      *)
(* sample is, per declared name, the shape of the extracted tensor.        *)
(* input_names and input_ndims are loader.names and loader.ndims.          *)
(***************************************************************************)
\* {name: {ax: [] for ax in range(ndim)} for name, ndim in zip(...)}
EmptyAxesShapes(names, ndims) ==
    [k \in 1..Len(ndims) |->
        [name |-> names[k], axes |-> [a \in 1..ndims[k] |-> << >>]]]

\* axes_shapes[name][k].append(dim) for every tensor and axis of a sample
AppendSample(as, sample) ==
    [k \in 1..Len(as) |->
        [name |-> as[k].name,
         axes |-> [a \in 1..Len(as[k].axes) |->
                      Append(as[k].axes[a], sample[k][a])]]]

\* the index enumerate() gives to the next sample
NextIndex == IF i = None THEN 0 ELSE i[1] + 1

\* faulty variant of CheckLenOutcome: off by one, `i + 2 >= len(dataloader)`
CheckLenOutcomeLax(idx, ld, as) ==
    IF idx = None THEN Raise("UnboundLocalError", "", None)
    ELSE IF idx[1] + 2 >= ld.len THEN Return(as)
    ELSE Raise("AssertionError", "", None)

\* `assert i + 1 >= len(dataloader)`, then `return axes_shapes`
CheckLenOutcome(idx, ld, as) ==
    IF idx = None THEN Raise("UnboundLocalError", "", None)
    ELSE IF idx[1] + 1 >= ld.len THEN Return(as)
    ELSE Raise("AssertionError", "", None)

\* the sample of tensors with nds axes whose sizes are listed in g
SampleOf(nds, g) ==
    [k \in 1..Len(nds) |-> [a \in 1..nds[k] |-> g[Offset(nds, k) + a]]]

YieldLayouts ==
    {l \in NdimLists \X (0..MaxSamples) : SumSeq(l[1]) * l[2] <= MaxYieldCells}

\* the call sites: InferInputMetadata._run passes a sized dataloader with
\* num_samples = len(dataloader) and check_len left True;
\* InferOutputMetadata._run passes a generator with check_len = False.
Loader(sz, n, nds, ss) ==
    [sized |-> sz, len |-> n,
     names |-> SubSeq(TensorNames, 1, Len(nds)), ndims |-> nds,
     samples |-> [s \in 1..Len(ss) |-> SampleOf(nds, ss[s])]]

InitExtract ==
    /\ pc = "extract_call"
    /\ num_samples \in 0..MaxSamples
    /\ \E l \in YieldLayouts : \E ss \in [1..l[2] -> [1..SumSeq(l[1]) -> Sizes]] :
          \/ loader = Loader(TRUE, num_samples, l[1], ss)
          \/ loader = Loader(FALSE, 0, l[1], ss)
    /\ check_len \in BOOLEAN
    /\ i = None
    /\ warned = FALSE
    /\ axes_shapes = << >>
    /\ batch_dim = None
    /\ result = NoResult
    /\ IdleMeta /\ IdlePipeline

\* lines 41-45: the isinstance assertion and the empty buckets
ExtractEnter ==
    /\ pc = "extract_call"
    /\ IF check_len /\ ~loader.sized
       THEN /\ pc' = "extracted"
            /\ result' = Raise("AssertionError", "", None)
            /\ UNCHANGED axes_shapes
       ELSE /\ pc' = "extract_loop"
            /\ axes_shapes' = EmptyAxesShapes(loader.names, loader.ndims)
            /\ UNCHANGED result
    /\ UNCHANGED <<batch_dim, metaVars, extractVars, pipeVars>>

\* lines 46-54: one iteration of `for i, sample in enumerate(dataloader)`
ExtractIterate ==
    /\ pc = "extract_loop"
    /\ NextIndex < Len(loader.samples)
    /\ i' = Some(NextIndex)
    /\ IF NextIndex >= num_samples
       THEN \* the warning's f-string evaluates len(dataloader)
            IF loader.sized
            THEN /\ warned' = TRUE
                 /\ pc' = "extract_check"
                 /\ UNCHANGED <<axes_shapes, result>>
            ELSE /\ pc' = "extracted"
                 /\ result' = Raise("TypeError", "", None)
                 /\ UNCHANGED <<axes_shapes, warned>>
       ELSE /\ axes_shapes' = AppendSample(axes_shapes, loader.samples[NextIndex + 1])
            /\ UNCHANGED <<pc, result, warned>>
    /\ UNCHANGED <<batch_dim, metaVars, loader, num_samples, check_len, pipeVars>>

\* the data source is exhausted: the for loop ends
ExtractExhausted ==
    /\ pc = "extract_loop"
    /\ NextIndex >= Len(loader.samples)
    /\ pc' = "extract_check"
    /\ UNCHANGED <<axes_shapes, batch_dim, result, metaVars, extractVars, pipeVars>>

\* lines 56-59: the length check and the return
ExtractReturn ==
    /\ pc = "extract_check"
    /\ pc' = "extracted"
    /\ result' = IF check_len THEN CheckLenOutcome(i, loader, axes_shapes)
                 ELSE Return(axes_shapes)
    /\ UNCHANGED <<axes_shapes, batch_dim, metaVars, extractVars, pipeVars>>

NextExtract ==
    \/ ExtractEnter
    \/ ExtractIterate
    \/ ExtractExhausted
    \/ ExtractReturn

SpecExtract == InitExtract /\ [][NextExtract]_vars

(***************************************************************************)
(* Properties of _extract_axes_shapes.                                     *)
(***************************************************************************)
\* the buckets that hold the sizes of the first n samples, in order
BucketsOfFirst(n) ==
    [k \in 1..Len(loader.ndims) |->
        [name |-> loader.names[k],
         axes |-> [a \in 1..loader.ndims[k] |->
                      [s \in 1..n |-> loader.samples[s][k][a]]]]]

\* C8: when the data source yields more than num_samples samples, the
\* extraction logs a warning and returns the buckets of the first
\* num_samples samples without failing, for a sized loader with check_len
\* and for an unsized iterator without check_len.
C8_MoreSamplesWarnAndReturn ==
    (/\ pc = "extracted"
     /\ Len(loader.samples) > num_samples
     /\ (loader.sized /\ check_len) \/ (~loader.sized /\ ~check_len)) =>
        /\ result.status = "ok"
        /\ warned
        /\ result.value = BucketsOfFirst(num_samples)

\* C9: with check_len enabled, a data source that yields fewer than
\* num_samples samples (none included) makes the extraction fail with an
\* error; no truncated buckets are returned.
C9_FewerSamplesFail ==
    (/\ pc = "extracted"
     /\ check_len
     /\ Len(loader.samples) < num_samples) =>
        result.status = "raise"

\* a sized loader under-reported: it yielded some samples, fewer than its
\* length, and the length assertion failed
C9_Witness ==
    /\ pc = "extracted"
    /\ check_len /\ loader.sized
    /\ Len(loader.samples) > 0
    /\ Len(loader.samples) < num_samples
    /\ result.status = "raise"
    /\ result.error = "AssertionError"
    /\ \E k \in 1..Len(axes_shapes) : \E a \in 1..Len(axes_shapes[k].axes) :
          Len(axes_shapes[k].axes[a]) = Len(loader.samples)

(***************************************************************************)
(* Pipeline.__call__                                                       *)
(* A command is [name, requires, is_required, output_name, faults]:        *)
(* requires is the set of names of the commands it requires, output_name   *)
(* is get_output_name() (None when it declares none) and faults tells      *)
(* whether executing the command hits an execution fault.  A namespace is  *)
(* a function from keys to values; a value is None or Some(producer).      *)
(***************************************************************************)
CommandNames == <<"c1", "c2", "c3">>

\* {**a, **b}
Overlay(a, b) ==
    [k \in (DOMAIN a) \cup (DOMAIN b) |-> IF k \in DOMAIN b THEN b[k] ELSE a[k]]

\* d[key] = v
SetKey(d, key, v) ==
    [k \in (DOMAIN d) \cup {key} |-> IF k = key THEN v ELSE d[k]]

CommandResult(c, st, out) == [name |-> c.name, status |-> st, output |-> out]

\* the status a command has reached: that of its result, PENDING before
StatusOf(results, name) ==
    IF \E k \in 1..Len(results) : results[k].name = name
    THEN (CHOOSE r \in Range(results) : r.name = name).status
    ELSE "PENDING"

\* get_output_name() of the command of the list that is named name
OutputNameOf(name) ==
    (CHOOSE c \in Range(commands) : c.name = name).output_name

\* the output of requirement r is absent from the namespace kwargs
OutputAbsent(r, kwargs) ==
    /\ OutputNameOf(r) # None
    /\ OutputNameOf(r)[1] \notin DOMAIN kwargs

\* faulty variant of transform: no look at the namespace, a requirement whose
\* output is absent is handled like one that did not reach OK
transform_unchecked(c, kwargs, results) ==
    IF \E r \in c.requires : StatusOf(results, r) # "OK"
    THEN IF c.is_required
         THEN Raise("RequiredCommandFailed", c.name, None)
         ELSE Return(CommandResult(c, "SKIPPED", None))
    ELSE IF c.faults THEN Return(CommandResult(c, "FAIL", None))
    ELSE Return(CommandResult(c, "OK", Some(c.name)))

\* faulty variant of transform: a required command is skipped like any other
transform_skips_required(c, kwargs, results) ==
    IF \E r \in c.requires : OutputAbsent(r, kwargs)
    THEN Raise("InternalConsistencyFault", c.name, None)
    ELSE IF \E r \in c.requires : StatusOf(results, r) # "OK"
    THEN Return(CommandResult(c, "SKIPPED", None))
    ELSE IF c.faults THEN Return(CommandResult(c, "FAIL", None))
    ELSE Return(CommandResult(c, "OK", Some(c.name)))

\* faulty variant of transform: an execution fault raises out of the call
transform_fault_raises(c, kwargs, results) ==
    IF \E r \in c.requires : OutputAbsent(r, kwargs)
    THEN Raise("InternalConsistencyFault", c.name, None)
    ELSE IF \E r \in c.requires : StatusOf(results, r) # "OK"
    THEN IF c.is_required
         THEN Raise("RequiredCommandFailed", c.name, None)
         ELSE Return(CommandResult(c, "SKIPPED", None))
    ELSE IF c.faults THEN Raise("ExecutionFault", c.name, None)
    ELSE Return(CommandResult(c, "OK", Some(c.name)))

\* Command.transform(**kwargs): a requirement whose output is absent from
\* the namespace makes the command fail fast; a requirement that did not
\* reach OK skips the command, or aborts the run when the command is
\* required; otherwise the command executes and an execution fault is
\* captured as FAIL.
transform(c, kwargs, results) ==
    IF \E r \in c.requires : OutputAbsent(r, kwargs)
    THEN Raise("InternalConsistencyFault", c.name, None)
    ELSE IF \E r \in c.requires : StatusOf(results, r) # "OK"
    THEN IF c.is_required
         THEN Raise("RequiredCommandFailed", c.name, None)
         ELSE Return(CommandResult(c, "SKIPPED", None))
    ELSE IF c.faults THEN Return(CommandResult(c, "FAIL", None))
    ELSE Return(CommandResult(c, "OK", Some(c.name)))

\* faulty variant of StoreOutput: the output is stored under the command's name
StoreOutputByName(ap, c, r) ==
    IF c.output_name # None THEN SetKey(ap, c.name, r.output) ELSE ap

\* lines 52-53: additional_params[command.get_output_name()] = results.output
StoreOutput(ap, c, r) ==
    IF c.output_name # None THEN SetKey(ap, c.output_name[1], r.output) ELSE ap

\* faulty variant of AppendResult: the append is nested under the output_name test
AppendResultWhenNamed(results, c, r) ==
    IF c.output_name # None THEN Append(results, r) ELSE results

\* line 55: commands_results.append(results)
AppendResult(results, c, r) == Append(results, r)

OutputNames == {None, Some("x"), Some("model")}

\* what a command of a list of n commands may be like: requires is given
\* as positions among the n - 1 other commands of the list
CommandShapes(n) ==
    [requires : SUBSET (1..(n - 1)),
     is_required : BOOLEAN,
     output_name : OutputNames,
     faults : BOOLEAN]

\* the name of the m-th command other than the k-th
OtherName(k, m) == IF m < k THEN CommandNames[m] ELSE CommandNames[m + 1]

CommandsOf(f) ==
    [k \in 1..Len(f) |->
        [name |-> CommandNames[k],
         requires |-> {OtherName(k, m) : m \in f[k].requires},
         is_required |-> f[k].is_required,
         output_name |-> f[k].output_name,
         faults |-> f[k].faults]]

ConfigInput == [model |-> Some("config"), batch_dim |-> Some("config")]

InitPipeline ==
    /\ pc = "pipeline_call"
    /\ \E n \in 0..Len(CommandNames) :
          \E f \in [1..n -> CommandShapes(n)] : commands = CommandsOf(f)
    /\ config = ConfigInput
    /\ pos = 0
    /\ additional_params = << >>
    /\ commands_results = << >>
    /\ executed = << >>
    /\ previous = None
    /\ preprocess_req = {}
    /\ onnx_convert = None
    /\ result = NoResult
    /\ axes_shapes = << >>
    /\ batch_dim = None
    /\ IdleMeta /\ IdleExtract

\* faulty variant of NewNamespace: the namespace outlives the call
KeptNamespace(ap) == ap

\* line 46: additional_params = {}
NewNamespace(ap) == << >>

\* lines 45-48: a run starts with an empty namespace and no results
PipelineCall ==
    /\ pc = "pipeline_call"
    /\ pc' = "pipeline_loop"
    /\ pos' = 0
    /\ additional_params' = NewNamespace(additional_params)
    /\ commands_results' = << >>
    /\ executed' = << >>
    /\ UNCHANGED <<axes_shapes, batch_dim, result, metaVars, extractVars,
                   commands, config, previous, managerVars>>

\* lines 45-48, the same Pipeline called a second time with the same config
\* once its first run is over: the locals of the first run are gone
PipelineCallAgain ==
    /\ pc \in {"returned", "aborted"}
    /\ previous = None
    /\ previous' = Some([calls |-> executed, results |-> commands_results,
                         outcome |-> pc])
    /\ pc' = "pipeline_loop"
    /\ pos' = 0
    /\ additional_params' = NewNamespace(additional_params)
    /\ commands_results' = << >>
    /\ executed' = << >>
    /\ result' = NoResult
    /\ UNCHANGED <<axes_shapes, batch_dim, metaVars, extractVars, commands, config,
                   managerVars>>

\* lines 49-55: one iteration of `for command in self._commands`
PipelineStep ==
    /\ pc = "pipeline_loop"
    /\ pos < Len(commands)
    /\ LET c == commands[pos + 1]
           kwargs == Overlay(config, additional_params)
           t == transform(c, kwargs, commands_results)
       IN  /\ executed' = Append(executed, [name |-> c.name, kwargs |-> kwargs])
           /\ IF t.status = "raise"
              THEN /\ pc' = "aborted"
                   /\ result' = t
                   /\ UNCHANGED <<pos, additional_params, commands_results>>
              ELSE /\ additional_params' = StoreOutput(additional_params, c, t.value)
                   /\ commands_results' = AppendResult(commands_results, c, t.value)
                   /\ pos' = pos + 1
                   /\ UNCHANGED <<pc, result>>
    /\ UNCHANGED <<axes_shapes, batch_dim, metaVars, extractVars, commands, config,
                   previous, managerVars>>

\* lines 57-64: the loop is over, PipelineResults is built and returned
PipelineReturn ==
    /\ pc = "pipeline_loop"
    /\ pos = Len(commands)
    /\ pc' = "returned"
    /\ result' = Return(commands_results)
    /\ UNCHANGED <<axes_shapes, batch_dim, metaVars, extractVars, pipeVars>>

NextPipeline ==
    \/ PipelineCall
    \/ PipelineCallAgain
    \/ PipelineStep
    \/ PipelineReturn

SpecPipeline == InitPipeline /\ [][NextPipeline]_vars

ProducersBefore(k, key) ==
    {m \in 1..(k - 1) : commands[m].output_name = Some(key)}

\* the greatest element of a non-empty set of positions
Latest(S) == CHOOSE m \in S : \A n \in S : n <= m

\* C11: the namespace passed to the command at position k is the config
\* overlaid with the outputs of exactly the commands before k that declare an
\* output name, keyed by that name: its keys are the config's keys and those
\* output names, a key some earlier command declares holds the output of the
\* latest such command (also when the config has that key), any other key
\* holds the config's value, and nothing of position k or later is visible.
C11_NamespaceIsConfigPlusEarlierOutputs ==
    \A k \in 1..Len(executed) :
        LET kwargs == executed[k].kwargs
            names == {commands[m].output_name[1] :
                         m \in {n \in 1..(k - 1) : commands[n].output_name # None}}
        IN  /\ DOMAIN kwargs = (DOMAIN config) \cup names
            /\ \A key \in DOMAIN kwargs :
                  IF key \in names
                  THEN kwargs[key] =
                          commands_results[Latest(ProducersBefore(k, key))].output
                  ELSE kwargs[key] = config[key]

\* the third command of a list was called after two commands that both
\* declared the output name "model", a key of the config, and both reached
\* OK: it saw the output of the second one under "model"
C11_Witness ==
    /\ Len(executed) = 3
    /\ commands[1].output_name = Some("model")
    /\ commands[2].output_name = Some("model")
    /\ commands_results[1].status = "OK"
    /\ commands_results[2].status = "OK"
    /\ executed[3].kwargs["model"] = Some("c2")
    /\ config["model"] = Some("config")

\* the status the command named name had reached when position k was called
StatusBefore(k, name) ==
    StatusOf(SubSeq(commands_results, 1, k - 1), name)

\* C12: a command that is not is_required and that requires a command which
\* ended FAIL ends SKIPPED, and the output key it declares is absent from the
\* namespace passed to every later command (as far as neither the config nor
\* another earlier command provides a key of that name).
C12_SkippedOutputAbsent ==
    \A k \in 1..Len(commands_results) :
        LET c == commands[k]
        IN  (/\ ~c.is_required
             /\ \E r \in c.requires : StatusBefore(k, r) = "FAIL")
            => /\ commands_results[k].status = "SKIPPED"
               /\ c.output_name # None =>
                     \A j \in (k + 1)..Len(executed) :
                         LET key == c.output_name[1]
                         IN  (/\ key \notin DOMAIN config
                              /\ ProducersBefore(j, key) = {k})
                             => key \notin DOMAIN executed[j].kwargs

\* the call made at position k was aborted: it is the last call of the run
\* and it appended no result
AbortedAt(k) ==
    /\ pc = "aborted"
    /\ Len(executed) = k
    /\ Len(commands_results) = k - 1
    /\ result.status = "raise"
    /\ result.name = commands[k].name

\* C13: when an is_required command is reached while one of its requirements
\* has failed (it ended FAIL, or SKIPPED by cascade), the whole run aborts
\* there: the command appends no result and no command after it is called.
C13_RequiredWithFailedDependencyAborts ==
    \A k \in 1..Len(executed) :
        (/\ commands[k].is_required
         /\ \E r \in commands[k].requires :
               StatusBefore(k, r) \in {"FAIL", "SKIPPED"})
        => AbortedAt(k)

\* the run was aborted at the second of three commands, which is required
\* and requires the first, whose execution faulted; the third was not called
C13_Witness ==
    /\ Len(commands) = 3
    /\ AbortedAt(2)
    /\ commands[1].faults
    /\ commands_results[1].status = "FAIL"
    /\ commands[2].is_required
    /\ commands[2].requires = {"c1"}
    /\ result.error = "RequiredCommandFailed"

\* the position of the command named name in the list
PositionOf(name) == CHOOSE k \in 1..Len(commands) : commands[k].name = name

\* the list respects the dependencies: every requirement comes earlier
Ordered ==
    \A k \in 1..Len(commands) :
        \A r \in commands[k].requires : PositionOf(r) < k

\* every requirement of the command at position k had reached OK when it
\* was called
Runs(k) == \A r \in commands[k].requires : StatusBefore(k, r) = "OK"

\* the command at position m requires the one at position k, directly or
\* through at most n further commands
RECURSIVE DependsWithin(_, _, _)
DependsWithin(n, m, k) ==
    \/ commands[k].name \in commands[m].requires
    \/ /\ n > 0
       /\ \E r \in commands[m].requires :
             DependsWithin(n - 1, PositionOf(r), k)

DependsOn(m, k) == DependsWithin(Len(commands), m, k)

\* C14 as stated: an execution fault of a command is recorded as FAIL in its
\* entry of commands_results and does not raise through the loop; in a
\* dependency-respecting list the run is never aborted after it, every
\* command that does not depend on the failed one gets its result, and the
\* run returns its results.
C14_FaultNeverStopsRun ==
    \A k \in 1..Len(executed) :
        (commands[k].faults /\ Runs(k)) =>
            /\ Len(commands_results) >= k
            /\ commands_results[k].status = "FAIL"
            /\ Ordered =>
                  /\ pc # "aborted"
                  /\ pc \in {"returned", "aborted"} =>
                        \A m \in (k + 1)..Len(commands) :
                            ~DependsOn(m, k) => m <= Len(commands_results)

\* the call that aborted the run: a required command with a requirement
\* that did not reach OK, or a command that has a requirement whose output
\* is absent from the namespace
AbortCause(j) ==
    \/ /\ commands[j].is_required
       /\ ~Runs(j)
    \/ \E r \in commands[j].requires : OutputAbsent(r, executed[j].kwargs)

\* C14, amended: an execution fault of a command is recorded as FAIL in its
\* entry of commands_results and does not itself raise through the loop:
\* the loop goes on, a later command whose requirements all reached OK is
\* executed (it ends OK or FAIL), and the run returns one result per command
\* unless a later call aborts it, which only a required command with a
\* requirement that did not reach OK, or a command with a requirement whose
\* output is absent, does.
C14_FaultRecordedRunGoesOn ==
    \A k \in 1..Len(executed) :
        (commands[k].faults /\ Runs(k)) =>
            /\ Len(commands_results) >= k
            /\ commands_results[k].status = "FAIL"
            /\ \A m \in (k + 1)..Len(commands_results) :
                  Runs(m) => commands_results[m].status \in {"OK", "FAIL"}
            /\ pc = "aborted" =>
                  /\ Len(executed) > k
                  /\ AbortedAt(Len(executed))
                  /\ AbortCause(Len(executed))
            /\ pc = "returned" =>
                  /\ result.status = "ok"
                  /\ Len(result.value) = Len(commands)

\* the execution of the first of three commands faulted and was recorded as
\* FAIL, the second, which requires nothing, was executed after it and
\* reached OK, and the run returned its three results
C14_Witness ==
    /\ pc = "returned"
    /\ Len(commands) = 3
    /\ commands[1].faults
    /\ commands[2].requires = {}
    /\ result.value[1].status = "FAIL"
    /\ result.value[2].status = "OK"
    /\ Len(result.value) = 3

Statuses(results) == [k \in 1..Len(results) |-> results[k].status]

\* s is a prefix of t
IsPrefix(s, t) == Len(s) <= Len(t) /\ s = SubSeq(t, 1, Len(s))

MaxPrecisions == 2   \* config.target_precisions has at most MaxPrecisions entries
MaxProviders == 2    \* config.onnx_runtimes has at most MaxProviders entries

Formats == {"ONNX", "TENSORRT", "TF_TRT"}
Precisions == {"fp16", "fp32"}
Providers == {"cpu", "cuda"}

Cmd(id, cls, req, arg) == [id |-> id, cls |-> cls, requires |-> req, arg |-> arg]

\* lines 44-61: the commands of the from_source branch, in list order;
\* export_savedmodel is the fourth object built and the sixth of the list
SourceCommands(b) ==
    << Cmd(b + 1, "InferInputMetadata", {}, ""),
       Cmd(b + 2, "FetchInputModelData", {b + 1}, ""),
       Cmd(b + 3, "InferOutputMetadata", {b + 1, b + 2}, ""),
       Cmd(b + 5, "DumpInputModelData", {b + 1, b + 2}, ""),
       Cmd(b + 6, "DumpOutputModelData", {b + 2, b + 3}, ""),
       Cmd(b + 4, "ExportTF2SavedModel", {b + 1, b + 2, b + 3}, ""),
       Cmd(b + 7, "CorrectnessSavedModel", {b + 4}, "TF_SAVEDMODEL"),
       Cmd(b + 8, "PerformanceSavedModel", {b + 4}, "TF_SAVEDMODEL"),
       Cmd(b + 9, "ConfigCli", {b + 4}, "TF_SAVEDMODEL") >>

\* lines 64-66
LoadCommands(b) ==
    << Cmd(b + 1, "LoadMetadata", {}, ""),
       Cmd(b + 2, "LoadSamples", {b + 1}, "") >>

\* lines 70-75 (and 78-83): the ONNX conversion, a correctness and a
\* performance command per runtime provider, and the ConfigCli
OnnxCommands(b, req, providers) ==
    LET n == Len(providers)
    IN  [k \in 1..(2 * n + 2) |->
            IF k = 1 THEN Cmd(b + 1, "ConvertSavedModel2ONNX", req, "")
            ELSE IF k = 2 * n + 2 THEN Cmd(b + k, "ConfigCli", {b + 1}, "ONNX")
            ELSE IF k % 2 = 0
            THEN Cmd(b + k, "CorrectnessTensorFlow2ONNX", {b + 1}, providers[k \div 2])
            ELSE Cmd(b + k, "PerformanceONNX", {b + 1}, providers[(k - 1) \div 2])]

\* faulty variant of TrtGroup: the conversion is appended after its dependents
TrtGroupConvertLast(b, precision, onnx) ==
    << Cmd(b + 2, "CorrectnessTensorFlow2TRT", {b + 1}, precision),
       Cmd(b + 3, "PerformanceTRT", {b + 1}, precision),
       Cmd(b + 4, "ConfigCli", {b + 1}, precision),
       Cmd(b + 1, "ConvertONNX2TRT", {onnx}, precision) >>

\* lines 85-91: the commands of one target precision
TrtGroup(b, precision, onnx) ==
    << Cmd(b + 1, "ConvertONNX2TRT", {onnx}, precision),
       Cmd(b + 2, "CorrectnessTensorFlow2TRT", {b + 1}, precision),
       Cmd(b + 3, "PerformanceTRT", {b + 1}, precision),
       Cmd(b + 4, "ConfigCli", {b + 1}, precision) >>

\* lines 84-91: for target_precision in config.target_precisions
RECURSIVE TrtCommands(_, _, _)
TrtCommands(b, precisions, onnx) ==
    IF precisions = << >> THEN << >>
    ELSE TrtGroup(b, Head(precisions), onnx)
            \o TrtCommands(b + 4, Tail(precisions), onnx)

\* lines 95-117: the commands of one target precision
TfTrtGroup(b, precision, req) ==
    << Cmd(b + 1, "ConvertSavedModel2TFTRT", req, precision),
       Cmd(b + 2, "CorrectnessSavedModel", {b + 1}, precision),
       Cmd(b + 3, "PerformanceSavedModel", {b + 1}, precision),
       Cmd(b + 4, "ConfigCli", {b + 1}, precision) >>

\* lines 94-117: for target_precision in config.target_precisions
RECURSIVE TfTrtCommands(_, _, _)
TfTrtCommands(b, precisions, req) ==
    IF precisions = << >> THEN << >>
    ELSE TfTrtGroup(b, Head(precisions), req)
            \o TfTrtCommands(b + 4, Tail(precisions), req)

\* faulty variant of MakesOnnxForTrt: the TensorRT branch always converts anew
MakesOnnxForTrtAlways(cfg) == TRUE

\* line 77: if Format.ONNX not in config.target_formats
MakesOnnxForTrt(cfg) == "ONNX" \notin cfg.target_formats

InitManager ==
    /\ pc = "get_pipeline"
    /\ \E fs \in BOOLEAN, tf \in SUBSET Formats :
          \E np \in 0..MaxPrecisions, nr \in 0..MaxProviders :
              \E tp \in [1..np -> Precisions], rt \in [1..nr -> Providers] :
                  config = [from_source |-> fs, target_formats |-> tf,
                            target_precisions |-> tp, onnx_runtimes |-> rt]
    /\ commands = << >>
    /\ preprocess_req = {}
    /\ onnx_convert = None
    /\ pos = 0
    /\ additional_params = << >>
    /\ commands_results = << >>
    /\ executed = << >>
    /\ previous = None
    /\ result = NoResult
    /\ axes_shapes = << >>
    /\ batch_dim = None
    /\ IdleMeta /\ IdleExtract

managerIdle == <<axes_shapes, batch_dim, metaVars, extractVars, pos,
                 additional_params, commands_results, executed, config, previous>>

\* lines 43-62: the from_source branch
ManagerFromSource ==
    /\ pc = "get_pipeline"
    /\ config.from_source
    /\ commands' = commands \o SourceCommands(Len(commands))
    /\ preprocess_req' = {Len(commands) + 4}
    /\ pc' = "onnx"
    /\ UNCHANGED <<managerIdle, result, onnx_convert>>

\* lines 63-67: the branch of a model that is loaded
ManagerLoad ==
    /\ pc = "get_pipeline"
    /\ ~config.from_source
    /\ commands' = commands \o LoadCommands(Len(commands))
    /\ preprocess_req' = {Len(commands) + 1, Len(commands) + 2}
    /\ pc' = "onnx"
    /\ UNCHANGED <<managerIdle, result, onnx_convert>>

\* lines 69-75: if Format.ONNX in config.target_formats
ManagerOnnx ==
    /\ pc = "onnx"
    /\ IF "ONNX" \in config.target_formats
       THEN /\ commands' = commands \o OnnxCommands(Len(commands), preprocess_req,
                                                    config.onnx_runtimes)
            /\ onnx_convert' = Some(Len(commands) + 1)
       ELSE UNCHANGED <<commands, onnx_convert>>
    /\ pc' = "tensorrt"
    /\ UNCHANGED <<managerIdle, result, preprocess_req>>

\* lines 76-91: if Format.TENSORRT in config.target_formats
ManagerTensorRT ==
    /\ pc = "tensorrt"
    /\ IF "TENSORRT" \in config.target_formats
       THEN LET anew == MakesOnnxForTrt(config)
                list == IF anew
                        THEN commands \o OnnxCommands(Len(commands), preprocess_req,
                                                      config.onnx_runtimes)
                        ELSE commands
                onnx == IF anew THEN Some(Len(commands) + 1) ELSE onnx_convert
            IN  /\ commands' = list \o TrtCommands(Len(list), config.target_precisions,
                                                   onnx[1])
                /\ onnx_convert' = onnx
       ELSE UNCHANGED <<commands, onnx_convert>>
    /\ pc' = "tf_trt"
    /\ UNCHANGED <<managerIdle, result, preprocess_req>>

\* lines 93-117: if Format.TF_TRT in config.target_formats
ManagerTfTrt ==
    /\ pc = "tf_trt"
    /\ IF "TF_TRT" \in config.target_formats
       THEN commands' = commands \o TfTrtCommands(Len(commands),
                                                  config.target_precisions,
                                                  preprocess_req)
       ELSE UNCHANGED commands
    /\ pc' = "build"
    /\ UNCHANGED <<managerIdle, result, preprocess_req, onnx_convert>>

\* line 119: return Pipeline(..., commands=commands)
ManagerReturn ==
    /\ pc = "build"
    /\ pc' = "built"
    /\ result' = Return(commands)
    /\ UNCHANGED <<managerIdle, commands, preprocess_req, onnx_convert>>

NextManager ==
    \/ ManagerFromSource
    \/ ManagerLoad
    \/ ManagerOnnx
    \/ ManagerTensorRT
    \/ ManagerTfTrt
    \/ ManagerReturn

SpecManager == InitManager /\ [][NextManager]_vars

(***************************************************************************)
(* Properties of TFPipelineManager._get_pipeline.                          *)
(***************************************************************************)
\* the positions of the list that hold a command of class cls
PositionsOfClass(cls) == {k \in 1..Len(commands) : commands[k].cls = cls}

\* C15: for every config the list that _get_pipeline builds is a valid
\* topological order: the commands are distinct objects and every command
\* that a command of the list requires is itself in the list, at a strictly
\* earlier position (of the list as it grows, and of the one handed to
\* Pipeline).
C15_ListIsTopologicalOrder ==
    /\ \A k, m \in 1..Len(commands) : commands[k].id = commands[m].id => k = m
    /\ \A k \in 1..Len(commands) :
          \A r \in commands[k].requires :
              \E m \in 1..(k - 1) : commands[m].id = r
    /\ pc = "built" => result.value = commands

\* the list was built from source for the three formats, two precisions
\* and two runtime providers: 9 + 6 + 8 + 8 commands
C15_Witness ==
    /\ pc = "built"
    /\ config.from_source
    /\ config.target_formats = Formats
    /\ Len(config.target_precisions) = 2
    /\ Len(config.onnx_runtimes) = 2
    /\ Len(result.value) = 31

\* C16: the list that _get_pipeline builds holds exactly one
\* ConvertSavedModel2ONNX when ONNX or TENSORRT is among the target formats
\* and none otherwise; when TENSORRT is among them every ConvertONNX2TRT
\* requires that single ONNX conversion and nothing else, whether or not
\* ONNX is among them too.
C16_SingleOnnxConversion ==
    pc = "built" =>
        LET onnx == PositionsOfClass("ConvertSavedModel2ONNX")
        IN  /\ Cardinality(onnx) =
                  IF config.target_formats \cap {"ONNX", "TENSORRT"} # {}
                  THEN 1 ELSE 0
            /\ "TENSORRT" \in config.target_formats =>
                  \A k \in PositionsOfClass("ConvertONNX2TRT") :
                      \E m \in onnx : commands[k].requires = {commands[m].id}

\* TENSORRT was asked for without ONNX, with two precisions: the list holds
\* one ONNX conversion and two TensorRT conversions
C16_Witness ==
    /\ pc = "built"
    /\ "TENSORRT" \in config.target_formats
    /\ "ONNX" \notin config.target_formats
    /\ Cardinality(PositionsOfClass("ConvertONNX2TRT")) = 2
    /\ Cardinality(PositionsOfClass("ConvertSavedModel2ONNX")) = 1

====
